---------------------------- MODULE Spec2Model ----------------------------
(***************************************************************************)
(* A model of the RIP packet codec (rip-rs): the cursor reader, the field  *)
(* codecs, the header and entry codecs, the packet container and the       *)
(* top-level parse / serialize entry points.                               *)
(*                                                                         *)
(* Conventions.  A byte buffer is a sequence of naturals in 0..255; a Rust *)
(* cursor c (0-based) addresses bytes[c + 1].  A Result is a record whose  *)
(* field ok tells Ok from Err: Ok carries val (and cursor for a decoder),  *)
(* Err carries err, a tuple <<name, fields...>> of the error variant.      *)
(* A u32 is the pair [hi, lo] of its two 16-bit halves (TLC's integers are *)
(* 32-bit signed, so 2^32 - 1 is not an integer of the model).             *)
(***************************************************************************)
EXTENDS Integers, Sequences, FiniteSets, TLC

\* ------------------------------------------------------------------ results

Ok(v, c) == [ok |-> TRUE, val |-> v, cursor |-> c]

OkV(v) == [ok |-> TRUE, val |-> v]

Err(e) == [ok |-> FALSE, err |-> e]

\* `let x = v;`: v is evaluated once and bound to x in F
Let(v, F(_)) == CHOOSE y \in { F(x) : x \in {v} } : TRUE

\* `let r = res?;`: the Err of res is returned, its Ok value is bound in F
Try(res, F(_)) == CHOOSE y \in { IF r.ok THEN F(r) ELSE r : r \in {res} } : TRUE

\* a loop of at most n iterations on the loop state s, Body(s) being one pass
\* through its body and the identity once the loop has returned.  The passes
\* are run in two halves, so that the evaluation nests log n deep, not n.
RECURSIVE Loop(_, _, _)
Loop(Body(_), s, n) ==
    IF n = 0 THEN s
    ELSE IF n = 1 THEN Body(s)
    ELSE Let(Loop(Body, s, n \div 2), LAMBDA m : Loop(Body, m, n - (n \div 2)))

\* the loop state: running with its local variables, or returned with a Result
Running(locals) == [returned |-> FALSE, locals |-> locals]

Returned(result) == [returned |-> TRUE, result |-> result]

\* ------------------------------------------------------------ cursor reader

\* a fault of byte_reader::read: the offset reported is one past the cursor
read_reports_next(cursor, bytes) ==
    IF cursor < Len(bytes)
    THEN Ok(bytes[cursor + 1], cursor + 1)
    ELSE Err(<<"InsufficientInputBytesLength", cursor + 1>>)

\* byte_reader::read: bytes.get(cursor), else InsufficientInputBytesLength(cursor)
read(cursor, bytes) ==
    IF cursor < Len(bytes)
    THEN Ok(bytes[cursor + 1], cursor + 1)
    ELSE Err(<<"InsufficientInputBytesLength", cursor>>)

\* a fault of zero_bytes::skip: the offset reported is that of the byte read
skip_iteration_at_index(s, bytes) ==
    IF s.returned THEN s
    ELSE Let(read(s.locals.cursor, bytes), LAMBDA r :
         IF ~r.ok THEN Returned(r)
         ELSE IF r.val # 0
              THEN Returned(Err(<<"NotZeroByte", r.val, s.locals.cursor>>))
              ELSE Running([cursor |-> r.cursor]))

\* zero_bytes::skip, one pass of `for _ in 0..num_of_zero_bytes`
skip_iteration(s, bytes) ==
    IF s.returned THEN s
    ELSE Let(read(s.locals.cursor, bytes), LAMBDA r :
         IF ~r.ok THEN Returned(r)
         ELSE IF r.val # 0
              THEN Returned(Err(<<"NotZeroByte", r.val, r.cursor>>))
              ELSE Running([cursor |-> r.cursor]))

\* zero_bytes::skip
skip(num_of_zero_bytes, cursor, bytes) ==
    Let(Loop(LAMBDA s : skip_iteration(s, bytes),
             Running([cursor |-> cursor]), num_of_zero_bytes), LAMBDA s :
    IF s.returned THEN s.result ELSE Ok(<<>>, s.locals.cursor))

\* ------------------------------------------------------------- command kind

KindNames ==
    << "Invalid", "Request", "Response", "TraceOn", "TraceOff", "Reserved",
       "TriggeredRequest", "TriggeredResponse", "TriggeredAcknowledgement",
       "UpdateRequest", "UpdateResponse", "UpdateAcknowledge" >>

\* a fault of Kind::from_u8: the command 0 (Invalid) is not accepted
Kind_from_u8_zero_rejected(value) ==
    IF value >= 1 /\ value <= 11 THEN KindNames[value + 1] ELSE "Unknown"

\* command::Kind::from_u8
Kind_from_u8(value) ==
    IF value <= 11 THEN KindNames[value + 1] ELSE "Unknown"

\* command::Kind::to_u8 (None is modelled as -1)
Kind_to_u8(kind) ==
    IF kind = "Unknown" THEN -1
    ELSE (CHOOSE i \in 1..Len(KindNames) : KindNames[i] = kind) - 1

\* command::Kind::parse
Kind_parse(cursor, bytes) ==
    Try(read(cursor, bytes), LAMBDA r :
    IF Kind_from_u8(r.val) = "Unknown"
    THEN Err(<<"UnknownCommandKind", r.val, r.cursor>>)
    ELSE Ok(Kind_from_u8(r.val), r.cursor))

\* impl Serializable for Kind
Kind_to_bytes(kind) ==
    IF Kind_to_u8(kind) = -1 THEN Err(<<"UnknownCommandKind">>)
    ELSE OkV(<<Kind_to_u8(kind)>>)

\* ------------------------------------------------------------------ version

\* a fault of Version::from_u8: 0 is not told from an unknown version
Version_from_u8_zero_unknown(value) ==
    CASE value = 1 -> "Version1"
      [] value = 2 -> "Version2"
      [] OTHER -> "Unknown"

\* a fault of Version::from_u8: every version from 2 on is taken for version 2
Version_from_u8_newer_is_v2(value) ==
    CASE value = 0 -> "MustBeDiscarded"
      [] value = 1 -> "Version1"
      [] OTHER -> "Version2"

\* version::Version::from_u8
Version_from_u8(value) ==
    CASE value = 0 -> "MustBeDiscarded"
      [] value = 1 -> "Version1"
      [] value = 2 -> "Version2"
      [] OTHER -> "Unknown"

\* version::Version::to_u8 (None is modelled as -1)
Version_to_u8(version) ==
    CASE version = "MustBeDiscarded" -> 0
      [] version = "Version1" -> 1
      [] version = "Version2" -> 2
      [] OTHER -> -1

\* impl Serializable for Version
Version_to_bytes(version) ==
    IF Version_to_u8(version) = -1 THEN Err(<<"UnknownVersion">>)
    ELSE OkV(<<Version_to_u8(version)>>)

\* ----------------------------------------------------------- address family

\* address_family::Identifier::from_u16
Identifier_from_u16(value) ==
    CASE value = 0 -> "Unspecified"
      [] value = 2 -> "IP"
      [] value = 65535 -> "AuthenticationPresent"
      [] OTHER -> "Unknown"

\* address_family::Identifier::to_u16 (None is modelled as -1)
Identifier_to_u16(id) ==
    CASE id = "Unspecified" -> 0
      [] id = "IP" -> 2
      [] id = "AuthenticationPresent" -> 65535
      [] OTHER -> -1

\* a fault of Identifier::parse: the offset reported is the cursor after the
\* two bytes
Identifier_parse_offset_after(cursor, bytes) ==
    Try(read(cursor, bytes), LAMBDA r1 :
    Try(read(r1.cursor, bytes), LAMBDA r2 :
    Let(((r1.val * 256) % 65536) + r2.val, LAMBDA value :
    IF Identifier_from_u16(value) = "Unknown"
    THEN Err(<<"UnknownAddressFamilyIdentifier", value, r2.cursor>>)
    ELSE Ok(Identifier_from_u16(value), r2.cursor))))

\* address_family::Identifier::parse: ((b0 as u16) << 8) + b1 as u16
Identifier_parse(cursor, bytes) ==
    Try(read(cursor, bytes), LAMBDA r1 :
    Try(read(r1.cursor, bytes), LAMBDA r2 :
    Let(((r1.val * 256) % 65536) + r2.val, LAMBDA value :
    IF Identifier_from_u16(value) = "Unknown"
    THEN Err(<<"UnknownAddressFamilyIdentifier", value, r2.cursor - 1>>)
    ELSE Ok(Identifier_from_u16(value), r2.cursor))))

\* a fault of Identifier::to_bytes: the high byte is not written
Identifier_to_bytes_low_byte_only(id) ==
    Let(Identifier_to_u16(id), LAMBDA v :
    IF v = -1 THEN Err(<<"UnknownAddressFamilyIdentifier">>)
    ELSE OkV(<<0, v % 256>>))

\* impl Serializable for Identifier
Identifier_to_bytes(id) ==
    Let(Identifier_to_u16(id), LAMBDA v :
    IF v = -1 THEN Err(<<"UnknownAddressFamilyIdentifier">>)
    ELSE OkV(<<v \div 256, v % 256>>))

\* ---------------------------------------------------------------- route tag

\* a fault of route_tag::parse: the second byte is taken for the high one
route_tag_parse_swapped(cursor, bytes) ==
    Try(read(cursor, bytes), LAMBDA r1 :
    Try(read(r1.cursor, bytes), LAMBDA r2 :
    Ok(((r2.val * 256) % 65536) + r1.val, r2.cursor)))

\* route_tag::parse
route_tag_parse(cursor, bytes) ==
    Try(read(cursor, bytes), LAMBDA r1 :
    Try(read(r1.cursor, bytes), LAMBDA r2 :
    Ok(((r1.val * 256) % 65536) + r2.val, r2.cursor)))

\* a fault of route_tag::to_bytes: the least significant byte first
route_tag_to_bytes_le(value) == OkV(<<value % 256, value \div 256>>)

\* route_tag::to_bytes
route_tag_to_bytes(value) == OkV(<<value \div 256, value % 256>>)

\* ------------------------------------------------------------------- metric

\* metric::parse: (b0 << 24) + (b1 << 16) + (b2 << 8) + b3, as [hi, lo]
metric_parse(cursor, bytes) ==
    Try(read(cursor, bytes), LAMBDA r1 :
    Try(read(r1.cursor, bytes), LAMBDA r2 :
    Try(read(r2.cursor, bytes), LAMBDA r3 :
    Try(read(r3.cursor, bytes), LAMBDA r4 :
    Ok([hi |-> r1.val * 256 + r2.val, lo |-> r3.val * 256 + r4.val],
       r4.cursor)))))

\* a fault of metric::to_bytes: the least significant byte first
metric_to_bytes_le(value) ==
    OkV(<<value.lo % 256, value.lo \div 256, value.hi % 256, value.hi \div 256>>)

\* metric::to_bytes: the four masks and shifts, on [hi, lo]
metric_to_bytes(value) ==
    OkV(<<value.hi \div 256, value.hi % 256, value.lo \div 256, value.lo % 256>>)

\* --------------------------------------------------------------------- ipv4

\* ipv4::parse: four octets
ipv4_parse(cursor, bytes) ==
    Try(read(cursor, bytes), LAMBDA r1 :
    Try(read(r1.cursor, bytes), LAMBDA r2 :
    Try(read(r2.cursor, bytes), LAMBDA r3 :
    Try(read(r3.cursor, bytes), LAMBDA r4 :
    Ok(<<r1.val, r2.val, r3.val, r4.val>>, r4.cursor)))))

\* ipv4::to_bytes: octets().to_vec()
ipv4_to_bytes(ipv4) == OkV(ipv4)

\* ------------------------------------------------------------------- header

\* header::Header::new
Header_new(command, version) == [command |-> command, version |-> version]

\* a fault of header::parse: the two reserved bytes are read and not compared
\* with zero
header_parse_unchecked_reserved(cursor, bytes) ==
    Try(Kind_parse(cursor, bytes), LAMBDA rc :
    Try(read(rc.cursor, bytes), LAMBDA rv :
    Try(read(rv.cursor, bytes), LAMBDA r1 :
    Try(read(r1.cursor, bytes), LAMBDA r2 :
    Ok(Header_new(rc.val, Version_from_u8(rv.val)), r2.cursor)))))

\* a fault of header::parse: a version byte that names no version is refused
header_parse_refuses_unknown_version(cursor, bytes) ==
    Try(Kind_parse(cursor, bytes), LAMBDA rc :
    Try(read(rc.cursor, bytes), LAMBDA rv :
    IF Version_from_u8(rv.val) = "Unknown"
    THEN Err(<<"UnknownVersion", rv.cursor>>)
    ELSE Try(skip(2, rv.cursor, bytes), LAMBDA rz :
         Ok(Header_new(rc.val, Version_from_u8(rv.val)), rz.cursor))))

\* header::parse
header_parse(cursor, bytes) ==
    Try(Kind_parse(cursor, bytes), LAMBDA rc :
    Try(read(rc.cursor, bytes), LAMBDA rv :
    Try(skip(2, rv.cursor, bytes), LAMBDA rz :
    Ok(Header_new(rc.val, Version_from_u8(rv.val)), rz.cursor))))

\* impl Serializable for Header: command first, then version, then [0, 0]
Header_to_bytes(header) ==
    Try(Kind_to_bytes(header.command), LAMBDA command_bytes :
    Try(Version_to_bytes(header.version), LAMBDA version_bytes :
    OkV(command_bytes.val \o version_bytes.val \o <<0, 0>>)))

\* ------------------------------------------------------------------ entries

\* v1::Entry::new
v1_Entry_new(address_family_identifier, ip_address, metric) ==
    [address_family_identifier |-> address_family_identifier,
     ip_address |-> ip_address,
     metric |-> metric]

\* v2::Entry::new
v2_Entry_new(address_family_identifier, route_tag, ip_address, subnet_mask, next_hop, metric) ==
    [address_family_identifier |-> address_family_identifier,
     route_tag |-> route_tag,
     ip_address |-> ip_address,
     subnet_mask |-> subnet_mask,
     next_hop |-> next_hop,
     metric |-> metric]

\* a fault of v1 parse_entry: 7 bytes of padding are passed over, not 8
v1_parse_entry_short_padding(cursor, bytes) ==
    Try(Identifier_parse(cursor, bytes), LAMBDA ra :
    Try(skip(2, ra.cursor, bytes), LAMBDA rz1 :
    Try(ipv4_parse(rz1.cursor, bytes), LAMBDA ri :
    Try(skip(7, ri.cursor, bytes), LAMBDA rz2 :
    Try(metric_parse(rz2.cursor, bytes), LAMBDA rm :
    Ok(v1_Entry_new(ra.val, ri.val, rm.val), rm.cursor))))))

\* a fault of v1 parse_entry: the 8 bytes after the address are passed over
\* without being compared with zero
v1_parse_entry_unchecked_padding(cursor, bytes) ==
    Try(Identifier_parse(cursor, bytes), LAMBDA ra :
    Try(skip(2, ra.cursor, bytes), LAMBDA rz1 :
    Try(ipv4_parse(rz1.cursor, bytes), LAMBDA ri :
    Try(ipv4_parse(ri.cursor, bytes), LAMBDA rp1 :
    Try(ipv4_parse(rp1.cursor, bytes), LAMBDA rp2 :
    Try(metric_parse(rp2.cursor, bytes), LAMBDA rm :
    Ok(v1_Entry_new(ra.val, ri.val, rm.val), rm.cursor)))))))

\* impl PacketParsable<v1::Entry> for v1::EntriesParser
v1_parse_entry(cursor, bytes) ==
    Try(Identifier_parse(cursor, bytes), LAMBDA ra :
    Try(skip(2, ra.cursor, bytes), LAMBDA rz1 :
    Try(ipv4_parse(rz1.cursor, bytes), LAMBDA ri :
    Try(skip(8, ri.cursor, bytes), LAMBDA rz2 :
    Try(metric_parse(rz2.cursor, bytes), LAMBDA rm :
    Ok(v1_Entry_new(ra.val, ri.val, rm.val), rm.cursor))))))

\* a fault of v2 parse_entry: the next hop is read before the subnet mask
v2_parse_entry_swapped(cursor, bytes) ==
    Try(Identifier_parse(cursor, bytes), LAMBDA ra :
    Try(route_tag_parse(ra.cursor, bytes), LAMBDA rt :
    Try(ipv4_parse(rt.cursor, bytes), LAMBDA ri :
    Try(ipv4_parse(ri.cursor, bytes), LAMBDA rn :
    Try(ipv4_parse(rn.cursor, bytes), LAMBDA rs :
    Try(metric_parse(rs.cursor, bytes), LAMBDA rm :
    Ok(v2_Entry_new(ra.val, rt.val, ri.val, rs.val, rn.val, rm.val),
       rm.cursor)))))))

\* impl PacketParsable<v2::Entry> for v2::EntriesParser
v2_parse_entry(cursor, bytes) ==
    Try(Identifier_parse(cursor, bytes), LAMBDA ra :
    Try(route_tag_parse(ra.cursor, bytes), LAMBDA rt :
    Try(ipv4_parse(rt.cursor, bytes), LAMBDA ri :
    Try(ipv4_parse(ri.cursor, bytes), LAMBDA rs :
    Try(ipv4_parse(rs.cursor, bytes), LAMBDA rn :
    Try(metric_parse(rn.cursor, bytes), LAMBDA rm :
    Ok(v2_Entry_new(ra.val, rt.val, ri.val, rs.val, rn.val, rm.val),
       rm.cursor)))))))

\* impl Serializable for v1::Entry
v1_Entry_to_bytes(entry) ==
    Try(Identifier_to_bytes(entry.address_family_identifier), LAMBDA a :
    OkV(a.val \o <<0, 0>> \o ipv4_to_bytes(entry.ip_address).val
        \o <<0, 0, 0, 0, 0, 0, 0, 0>> \o metric_to_bytes(entry.metric).val))

\* impl Serializable for v2::Entry
v2_Entry_to_bytes(entry) ==
    Try(Identifier_to_bytes(entry.address_family_identifier), LAMBDA a :
    OkV(a.val \o route_tag_to_bytes(entry.route_tag).val
        \o ipv4_to_bytes(entry.ip_address).val
        \o ipv4_to_bytes(entry.subnet_mask).val
        \o ipv4_to_bytes(entry.next_hop).val
        \o metric_to_bytes(entry.metric).val))

\* the trait objects: T = v1::Entry or T = v2::Entry is the tag etype
parse_entry(etype, cursor, bytes) ==
    IF etype = "v1" THEN v1_parse_entry(cursor, bytes)
    ELSE v2_parse_entry(cursor, bytes)

Entry_to_bytes(etype, entry) ==
    IF etype = "v1" THEN v1_Entry_to_bytes(entry) ELSE v2_Entry_to_bytes(entry)

\* ------------------------------------------------------------------- packet

\* the cap of Packet::new (packet.rs) and of the entry loop (parser.rs)
MaxEntriesInPacket == 25

MaxEntriesInLoop == 25

\* a fault of Packet::new: the cap is tested with >=
Packet_new_off_by_one(etype, header, entries) ==
    IF Len(entries) >= MaxEntriesInPacket
    THEN Err(<<"MaxRIPEntriesNumberExceeded">>)
    ELSE OkV([etype |-> etype, header |-> header, entries |-> entries])

\* packet::Packet<T>::new
Packet_new(etype, header, entries) ==
    IF Len(entries) > MaxEntriesInPacket
    THEN Err(<<"MaxRIPEntriesNumberExceeded">>)
    ELSE OkV([etype |-> etype, header |-> header, entries |-> entries])

\* a fault of make_v1_packet: the entries are counted before the version is
\* compared
make_v1_packet_count_first(header, entries) ==
    IF Len(entries) > MaxEntriesInPacket
    THEN Err(<<"MaxRIPEntriesNumberExceeded">>)
    ELSE IF header.version # "Version1" THEN Err(<<"VersionInHeaderConflicted">>)
    ELSE OkV([etype |-> "v1", header |-> header, entries |-> entries])

\* packet::Packet<v1::Entry>::make_v1_packet
make_v1_packet(header, entries) ==
    IF header.version # "Version1" THEN Err(<<"VersionInHeaderConflicted">>)
    ELSE Packet_new("v1", header, entries)

\* packet::Packet<v2::Entry>::make_v2_packet
make_v2_packet(header, entries) ==
    IF header.version # "Version2" THEN Err(<<"VersionInHeaderConflicted">>)
    ELSE Packet_new("v2", header, entries)

\* lib.rs Packet<T>::new: public, no check
lib_Packet_new(etype, header, entries) ==
    OkV([etype |-> etype, header |-> header, entries |-> entries])

\* impl Serializable for Packet<T>, one pass of `for entry in self.get_entries()`:
\* entries_bytes.extend(entry.to_bytes()?)
to_bytes_iteration(s, packet) ==
    IF s.returned THEN s
    ELSE Let(Entry_to_bytes(packet.etype, packet.entries[s.locals.i]), LAMBDA b :
         IF ~b.ok THEN Returned(b)
         ELSE Running([i |-> s.locals.i + 1,
                       entries_bytes |-> s.locals.entries_bytes \o b.val]))

\* a fault of Packet::to_bytes: the header is put after the entries
Packet_to_bytes_header_last(packet) ==
    Let(Loop(LAMBDA s : to_bytes_iteration(s, packet),
             Running([i |-> 1, entries_bytes |-> <<>>]),
             Len(packet.entries)), LAMBDA s :
    IF s.returned THEN s.result
    ELSE Try(Header_to_bytes(packet.header), LAMBDA hb :
         OkV(s.locals.entries_bytes \o hb.val)))

\* a fault of Packet::to_bytes: the bytes encoded before the failing field are
\* returned
Packet_to_bytes_partial(packet) ==
    Let(Loop(LAMBDA s : to_bytes_iteration(s, packet),
             Running([i |-> 1, entries_bytes |-> <<>>]),
             Len(packet.entries)), LAMBDA s :
    IF s.returned THEN s.result
    ELSE Let(Header_to_bytes(packet.header), LAMBDA hb :
         IF hb.ok THEN OkV(hb.val \o s.locals.entries_bytes)
         ELSE OkV(s.locals.entries_bytes)))

\* impl Serializable for Packet<T>: the entries first, then the header
Packet_to_bytes(packet) ==
    Let(Loop(LAMBDA s : to_bytes_iteration(s, packet),
             Running([i |-> 1, entries_bytes |-> <<>>]),
             Len(packet.entries)), LAMBDA s :
    IF s.returned THEN s.result
    ELSE Try(Header_to_bytes(packet.header), LAMBDA hb :
         OkV(hb.val \o s.locals.entries_bytes)))

\* serializer::serialize_v1_packet / serialize_v2_packet
serialize_v1_packet(packet) == Packet_to_bytes(packet)

serialize_v2_packet(packet) == Packet_to_bytes(packet)

\* ------------------------------------------------------------------- parser

\* a fault of the loop of parse_entries: the loop is left one byte early
parse_entries_iteration_early_break(etype, s, bytes) ==
    IF s.returned THEN s
    ELSE IF Len(s.locals.entries) >= MaxEntriesInLoop
    THEN Returned(Err(<<"MaxRIPEntriesNumberExceeded", s.locals.cursor>>))
    ELSE Let(parse_entry(etype, s.locals.cursor, bytes), LAMBDA res :
         IF ~res.ok THEN Returned(res)
         ELSE IF res.cursor + 1 >= Len(bytes)
              THEN Returned(OkV(Append(s.locals.entries, res.val)))
              ELSE Running([entries |-> Append(s.locals.entries, res.val),
                            cursor |-> res.cursor]))

\* a fault of the loop of parse_entries: the cap is tested after the decode
parse_entries_iteration_cap_after(etype, s, bytes) ==
    IF s.returned THEN s
    ELSE Let(parse_entry(etype, s.locals.cursor, bytes), LAMBDA res :
         IF ~res.ok THEN Returned(res)
         ELSE IF Len(s.locals.entries) >= MaxEntriesInLoop
         THEN Returned(Err(<<"MaxRIPEntriesNumberExceeded", s.locals.cursor>>))
         ELSE IF res.cursor >= Len(bytes)
              THEN Returned(OkV(Append(s.locals.entries, res.val)))
              ELSE Running([entries |-> Append(s.locals.entries, res.val),
                            cursor |-> res.cursor]))

\* parser::parse_entries, one pass of `loop { ... }`
parse_entries_iteration(etype, s, bytes) ==
    IF s.returned THEN s
    ELSE IF Len(s.locals.entries) >= MaxEntriesInLoop
    THEN Returned(Err(<<"MaxRIPEntriesNumberExceeded", s.locals.cursor>>))
    ELSE Let(parse_entry(etype, s.locals.cursor, bytes), LAMBDA res :
         IF ~res.ok THEN Returned(res)
         ELSE IF res.cursor >= Len(bytes)
              THEN Returned(OkV(Append(s.locals.entries, res.val)))
              ELSE Running([entries |-> Append(s.locals.entries, res.val),
                            cursor |-> res.cursor]))

\* parser::parse_entries, the loop: it returns in its pass MaxEntriesInLoop + 1
\* at the latest, every earlier pass having pushed an entry
parse_entries_loop(etype, cursor, bytes) ==
    Loop(LAMBDA s : parse_entries_iteration(etype, s, bytes),
         Running([entries |-> <<>>, cursor |-> cursor]),
         MaxEntriesInLoop + 1).result

\* a fault of parse_entries: the test for an empty entry part is left out
parse_entries_no_empty_check(etype, cursor, bytes, overflow_checks) ==
    parse_entries_loop(etype, cursor, bytes)

\* parser::parse_entries.  bytes.len() - 1 on an empty buffer is a usize
\* underflow: a panic in a build with overflow checks; without them it wraps
\* to usize::MAX, the test is false and the loop runs.
parse_entries(etype, cursor, bytes, overflow_checks) ==
    IF Len(bytes) = 0
    THEN IF overflow_checks
         THEN Err(<<"panic", "attempt to subtract with overflow">>)
         ELSE parse_entries_loop(etype, cursor, bytes)
    ELSE IF (Len(bytes) - 1) <= cursor
         THEN Err(<<"EmptyRIPEntry", cursor>>)
         ELSE parse_entries_loop(etype, cursor, bytes)

\* Result::unwrap on an Err: the call panics
unwrap_panic == Err(<<"panic", "called Result::unwrap on an Err value">>)

\* a fault of parser::parse: the Version2 arm builds the packet with
\* make_v1_packet
parse_v2_arm_makes_v1(bytes, overflow_checks) ==
    Try(header_parse(0, bytes), LAMBDA h :
    CASE h.val.version = "Version1" ->
            Try(parse_entries("v1", h.cursor, bytes, overflow_checks), LAMBDA es :
            Let(make_v1_packet(h.val, es.val), LAMBDA p :
            IF p.ok THEN OkV([tag |-> "V1", packet |-> p.val])
            ELSE unwrap_panic))
      [] h.val.version = "Version2" ->
            Try(parse_entries("v2", h.cursor, bytes, overflow_checks), LAMBDA es :
            Let(make_v1_packet(h.val, es.val), LAMBDA p :
            IF p.ok THEN OkV([tag |-> "V2", packet |-> p.val])
            ELSE unwrap_panic))
      [] h.val.version = "MustBeDiscarded" ->
            Err(<<"MustBeDiscardedVersion", 2>>)
      [] OTHER -> Err(<<"UnknownVersion", 2>>))

\* parser::parse; the envelope ParsedPacket::V1 / V2 is the field tag
parse(bytes, overflow_checks) ==
    Try(header_parse(0, bytes), LAMBDA h :
    CASE h.val.version = "Version1" ->
            Try(parse_entries("v1", h.cursor, bytes, overflow_checks), LAMBDA es :
            Let(make_v1_packet(h.val, es.val), LAMBDA p :
            IF p.ok THEN OkV([tag |-> "V1", packet |-> p.val])
            ELSE unwrap_panic))
      [] h.val.version = "Version2" ->
            Try(parse_entries("v2", h.cursor, bytes, overflow_checks), LAMBDA es :
            Let(make_v2_packet(h.val, es.val), LAMBDA p :
            IF p.ok THEN OkV([tag |-> "V2", packet |-> p.val])
            ELSE unwrap_panic))
      [] h.val.version = "MustBeDiscarded" ->
            Err(<<"MustBeDiscardedVersion", 2>>)
      [] OTHER -> Err(<<"UnknownVersion", 2>>))

\* lib.rs parse, the call parser.parse_entries(cursor, bytes): the method is
\* declared by the trait PacketParsable of lib.rs and has no implementation in
\* the sources; it is the entry loop as specified (EmptyRIPEntry when no byte
\* remains at the cursor, then the loop with its cap of 25)
lib_parse_entries(etype, cursor, bytes) ==
    IF cursor >= Len(bytes)
    THEN Err(<<"EmptyRIPEntry", cursor>>)
    ELSE parse_entries_loop(etype, cursor, bytes)

\* lib.rs parse: the header is decoded in place, then the version is matched;
\* the packet is built by the Packet::new of lib.rs
lib_parse(bytes) ==
    Try(Kind_parse(0, bytes), LAMBDA parsed :
    Try(read(parsed.cursor, bytes), LAMBDA rv :
    Let(Version_from_u8(rv.val), LAMBDA version_value :
    Try(skip(2, rv.cursor, bytes), LAMBDA rz :
    Let(Header_new(parsed.val, version_value), LAMBDA header :
    CASE version_value = "Version1" ->
            Try(lib_parse_entries("v1", rz.cursor, bytes), LAMBDA es :
            OkV([tag |-> "V1",
                 packet |-> lib_Packet_new("v1", header, es.val).val]))
      [] version_value = "Version2" ->
            Try(lib_parse_entries("v2", rz.cursor, bytes), LAMBDA es :
            OkV([tag |-> "V2",
                 packet |-> lib_Packet_new("v2", header, es.val).val]))
      [] version_value = "MustBeDiscarded" ->
            Err(<<"MustBeDiscardedVersion", rz.cursor>>)
      [] OTHER -> Err(<<"UnknownCommandKind", rv.val, rz.cursor>>))))))

\* a fault of parser::parse_v1: the header version is not compared (the packet
\* is built without make_v1_packet)
parse_v1_unchecked_version(bytes, overflow_checks) ==
    Try(header_parse(0, bytes), LAMBDA h :
    Try(parse_entries("v1", h.cursor, bytes, overflow_checks), LAMBDA es :
    Packet_new("v1", h.val, es.val)))

\* parser::parse_v1
parse_v1(bytes, overflow_checks) ==
    Try(header_parse(0, bytes), LAMBDA h :
    Try(parse_entries("v1", h.cursor, bytes, overflow_checks), LAMBDA es :
    Let(make_v1_packet(h.val, es.val), LAMBDA p :
    IF p.ok THEN p ELSE Err(<<"InvalidPacket", p.err[1]>>))))

\* parser::parse_v2
parse_v2(bytes, overflow_checks) ==
    Try(header_parse(0, bytes), LAMBDA h :
    Try(parse_entries("v2", h.cursor, bytes, overflow_checks), LAMBDA es :
    Let(make_v2_packet(h.val, es.val), LAMBDA p :
    IF p.ok THEN p ELSE Err(<<"InvalidPacket", p.err[1]>>))))

\* ------------------------------------------------------------------- inputs

\* the longest entry list and the longest run of wire entries tried: one more
\* than the cap of 25, so that both sides of the boundary are met
MaxGenEntries == 26

\* the longest chain of calls on one value (make, serialize, parse)
MaxSteps == 3

CommandBytes == {0, 2, 11, 12, 255}

VersionBytes == {0, 1, 2, 3, 255}

ReservedPairs == {<<0, 0>>, <<1, 0>>, <<0, 9>>}

HeaderWire(c, v, r) == <<c, v>> \o r

AfiWire == << <<0, 2>>, <<0, 0>>, <<255, 255>> >>

MetricWire == << <<0, 0, 0, 1>>, <<4, 3, 2, 1>>, <<255, 255, 255, 255>>, <<0, 0, 0, 16>> >>

RouteTagWire == << <<1, 2>>, <<0, 0>>, <<255, 255>> >>

\* the i-th wire entry of a buffer, in the v1 and in the v2 layout
WireV1Entry(i) ==
    AfiWire[(i % 3) + 1] \o <<0, 0>> \o <<192, 0, 2, i>>
    \o <<0, 0, 0, 0, 0, 0, 0, 0>> \o MetricWire[(i % 4) + 1]

WireV2Entry(i) ==
    AfiWire[(i % 3) + 1] \o RouteTagWire[(i % 3) + 1] \o <<192, 0, 2, i>>
    \o <<255, 255, 255, 0>> \o <<192, 0, 2, 111>> \o MetricWire[(i % 4) + 1]

RECURSIVE WireEntries(_, _)
WireEntries(layout, n) ==
    IF n = 0 THEN <<>>
    ELSE WireEntries(layout, n - 1)
         \o (IF layout = "v1" THEN WireV1Entry(n) ELSE WireV2Entry(n))

\* what may follow the last whole entry: nothing, a few bytes, a truncated
\* entry, an entry with an unknown address family, a v1 reserved byte set
Tails ==
    { <<>>, <<0>>, <<0, 2>>, <<0, 3>>, <<0, 2, 0, 7>>,
      SubSeq(WireV1Entry(1), 1, 19),
      <<0, 3>> \o SubSeq(WireV1Entry(1), 3, 20),
      <<0, 2, 0, 0, 10, 0, 0, 1, 0, 0, 0, 5, 0, 0, 0, 0, 0, 0, 0, 1>> }

LongBuffers ==
    { HeaderWire(2, v, <<0, 0>>) \o WireEntries(layout, n) \o t :
        v \in {1, 2}, layout \in {"v1", "v2"}, n \in 0..MaxGenEntries, t \in Tails }

ShortBodies ==
    { <<>>, <<0>>, <<7, 7, 7>>, WireV1Entry(1), WireV2Entry(1),
      WireV2Entry(1) \o WireV2Entry(2) }

ShortBuffers ==
    { HeaderWire(c, v, r) \o b :
        c \in CommandBytes, v \in VersionBytes, r \in ReservedPairs, b \in ShortBodies }

TruncatedHeaders ==
    { SubSeq(HeaderWire(c, v, <<0, 0>>), 1, k) :
        c \in CommandBytes, v \in VersionBytes, k \in 0..3 }

Buffers == LongBuffers \cup ShortBuffers \cup TruncatedHeaders

\* headers given to the constructors: Header::new takes any Kind and Version
Headers ==
    { Header_new(c, v) :
        c \in {"Invalid", "Response", "UpdateAcknowledge", "Unknown"},
        v \in {"MustBeDiscarded", "Version1", "Version2", "Unknown"} }

AfiCycle == <<"IP", "Unspecified", "AuthenticationPresent">>

MetricSamples ==
    << [hi |-> 0, lo |-> 1], [hi |-> 1027, lo |-> 513],
       [hi |-> 65535, lo |-> 65535], [hi |-> 0, lo |-> 16] >>

RouteTagSamples == <<258, 0, 65535>>

\* where an entry list holds an entry of address family Unknown
Patterns == {"known", "unknown_first", "unknown_last"}

GenAfi(pat, i, n) ==
    IF (pat = "unknown_first" /\ i = 1) \/ (pat = "unknown_last" /\ i = n)
    THEN "Unknown" ELSE AfiCycle[(i % 3) + 1]

GenEntries(etype, n, pat) ==
    [ i \in 1..n |->
        IF etype = "v1"
        THEN v1_Entry_new(GenAfi(pat, i, n), <<192, 0, 2, i>>,
                          MetricSamples[(i % 4) + 1])
        ELSE v2_Entry_new(GenAfi(pat, i, n), RouteTagSamples[(i % 3) + 1],
                          <<192, 0, 2, i>>, <<255, 255, 255, 0>>,
                          <<192, 0, 2, 111>>, MetricSamples[(i % 4) + 1]) ]

EntryLists(etype) ==
    { GenEntries(etype, n, pat) : n \in 0..MaxGenEntries, pat \in Patterns }

\* the longest buffer given to a field codec called on its own
MaxUnitLen == 4

UnitBytes == {0, 2, 255}

\* the buffers and cursors given to read, skip and Identifier::parse: every
\* buffer of UnitBytes up to MaxUnitLen and every cursor up to one past its end
UnitBuffers == UNION { [1..n -> UnitBytes] : n \in 0..MaxUnitLen }

UnitCursors == 0..(MaxUnitLen + 1)

\* the numbers of zero bytes asked of skip: none, the 2 of the header and of a
\* v1 entry, the 8 of a v1 entry, and the lengths in between
SkipCounts == {0, 1, 2, 3, 8}

\* the buffers given to Kind::parse: every byte value, behind c zero bytes
KindBuffers == { [i \in 1..(c + 1) |-> IF i = c + 1 THEN b ELSE 0] : b \in 0..255, c \in 0..2 }

\* a v1 entry whose byte at the entry-relative position p is x
WireV1EntryWith(i, p, x) == [WireV1Entry(i) EXCEPT ![p + 1] = x]

V1ReservedPositions == {2, 3} \cup (8..15)

\* a version 1 header, k whole v1 entries, then a v1 entry with one reserved
\* byte set
ReservedSetBuffers ==
    { HeaderWire(2, 1, <<0, 0>>) \o WireEntries("v1", k) \o WireV1EntryWith(k + 1, p, x) :
        k \in {0, 2}, p \in V1ReservedPositions, x \in {1, 255} }

\* every Kind and every Version there is, the sentinels included
AllKinds == { KindNames[i] : i \in 1..Len(KindNames) } \cup {"Unknown"}

AllVersions == {"MustBeDiscarded", "Version1", "Version2", "Unknown"}

AllIdentifiers == {"Unspecified", "IP", "AuthenticationPresent", "Unknown"}

\* the buffers given to header::parse: a first, a last and an unknown command
\* before every version byte, and the headers cut short
HeaderBuffers ==
    { <<c, v>> \o r \o t :
        c \in {0, 11, 12}, v \in 0..255, r \in ReservedPairs, t \in {<<>>, <<7>>} }
    \cup TruncatedHeaders

\* the buffers and cursors given to parse_entry: one or two entries of either
\* layout and a tail, with or without a header before them
EntryBuffers ==
    { p \o WireEntries(layout, n) \o t :
        p \in {<<>>, HeaderWire(2, 1, <<0, 0>>)}, layout \in {"v1", "v2"},
        n \in 1..2, t \in Tails }

EntryCursors == {0, 4, 20, 24}

\* byte values and 16-bit values at the ends and in the middle of their ranges
ByteSamples == {0, 1, 16, 128, 255}

U16Samples == {0, 1, 16, 17, 255, 256, 258, 32768, 65535}

\* the buffers given to metric::parse and route_tag::parse
MetricBuffers == [1..4 -> ByteSamples] \cup UnitBuffers

RouteTagBuffers == [1..2 -> ByteSamples] \cup UnitBuffers

\* the values given to metric::to_bytes (a u32 as its halves) and
\* route_tag::to_bytes
MetricValues == { [hi |-> h, lo |-> l] : h \in U16Samples, l \in U16Samples }

RouteTagValues == U16Samples

\* -------------------------------------------------------------------- state

VARIABLES
    overflow_checks,  \* the build: whether usize arithmetic is checked
    hist,             \* the calls made so far, in order
    bytes,            \* the buffer given to the last parse call
    args,             \* the header and entries given to the last constructor
    res,              \* the Result of the last call
    pkt,              \* the packet::Packet the caller holds (a Result)
    lib_pkt,          \* the crate-root Packet the caller holds (a Result)
    src,              \* the packet that was serialized into wire
    wire              \* the Result of the last serialize call

vars == <<overflow_checks, hist, bytes, args, res, pkt, lib_pkt, src, wire>>

None == Err(<<"none">>)

Last(s) == s[Len(s)]

ParseOps == {"parse", "parse_v1", "parse_v2"}

MakeOps == {"make_v1_packet", "make_v2_packet"}

SerializeOps == {"serialize_v1_packet", "serialize_v2_packet"}

Init ==
    /\ overflow_checks \in BOOLEAN
    /\ hist = <<>>
    /\ bytes = <<>>
    /\ args = <<>>
    /\ res = None
    /\ pkt = None
    /\ lib_pkt = None
    /\ src = None
    /\ wire = None

\* the buffers a parse call may be given: any input buffer at the start, or
\* the bytes the serializer has just returned
ParseInputs ==
    IF hist = <<>> THEN Buffers \cup ReservedSetBuffers
    ELSE IF Last(hist) \in SerializeOps /\ wire.ok /\ Len(hist) < MaxSteps
         THEN {wire.val}
         ELSE {}

Parse ==
    \E b \in ParseInputs : \E r \in {parse(b, overflow_checks)} :
        /\ hist' = Append(hist, "parse")
        /\ bytes' = b
        /\ res' = r
        /\ pkt' = IF r.ok THEN OkV(r.val.packet) ELSE None
        /\ UNCHANGED <<overflow_checks, args, lib_pkt, src, wire>>

ParseV1 ==
    \E b \in ParseInputs : \E r \in {parse_v1(b, overflow_checks)} :
        /\ hist' = Append(hist, "parse_v1")
        /\ bytes' = b
        /\ res' = r
        /\ pkt' = IF r.ok THEN r ELSE None
        /\ UNCHANGED <<overflow_checks, args, lib_pkt, src, wire>>

ParseV2 ==
    \E b \in ParseInputs : \E r \in {parse_v2(b, overflow_checks)} :
        /\ hist' = Append(hist, "parse_v2")
        /\ bytes' = b
        /\ res' = r
        /\ pkt' = IF r.ok THEN r ELSE None
        /\ UNCHANGED <<overflow_checks, args, lib_pkt, src, wire>>

MakeV1Packet ==
    /\ hist = <<>>
    /\ \E h \in Headers, es \in EntryLists("v1") :
       \E r \in {make_v1_packet(h, es)} :
        /\ hist' = Append(hist, "make_v1_packet")
        /\ args' = [header |-> h, entries |-> es]
        /\ res' = r
        /\ pkt' = r
        /\ UNCHANGED <<overflow_checks, bytes, lib_pkt, src, wire>>

MakeV2Packet ==
    /\ hist = <<>>
    /\ \E h \in Headers, es \in EntryLists("v2") :
       \E r \in {make_v2_packet(h, es)} :
        /\ hist' = Append(hist, "make_v2_packet")
        /\ args' = [header |-> h, entries |-> es]
        /\ res' = r
        /\ pkt' = r
        /\ UNCHANGED <<overflow_checks, bytes, lib_pkt, src, wire>>

LibPacketNew ==
    /\ hist = <<>>
    /\ \E etype \in {"v1", "v2"}, h \in Headers :
       \E es \in EntryLists(etype) :
       \E r \in {lib_Packet_new(etype, h, es)} :
        /\ hist' = Append(hist, "lib_Packet_new")
        /\ args' = [header |-> h, entries |-> es]
        /\ res' = r
        /\ lib_pkt' = r
        /\ UNCHANGED <<overflow_checks, bytes, pkt, src, wire>>

SerializeV1Packet ==
    /\ hist # <<>> /\ Len(hist) < MaxSteps
    /\ Last(hist) \in MakeOps \cup ParseOps
    /\ pkt.ok /\ pkt.val.etype = "v1"
    /\ \E r \in {serialize_v1_packet(pkt.val)} :
        /\ hist' = Append(hist, "serialize_v1_packet")
        /\ res' = r
        /\ wire' = r
        /\ src' = pkt
        /\ UNCHANGED <<overflow_checks, bytes, args, pkt, lib_pkt>>

SerializeV2Packet ==
    /\ hist # <<>> /\ Len(hist) < MaxSteps
    /\ Last(hist) \in MakeOps \cup ParseOps
    /\ pkt.ok /\ pkt.val.etype = "v2"
    /\ \E r \in {serialize_v2_packet(pkt.val)} :
        /\ hist' = Append(hist, "serialize_v2_packet")
        /\ res' = r
        /\ wire' = r
        /\ src' = pkt
        /\ UNCHANGED <<overflow_checks, bytes, args, pkt, lib_pkt>>

\* the field codecs called on their own (as the crate's unit tests do)
ReadByte ==
    /\ hist = <<>>
    /\ \E b \in UnitBuffers, c \in UnitCursors : \E r \in {read(c, b)} :
        /\ hist' = Append(hist, "read")
        /\ bytes' = b
        /\ args' = [cursor |-> c]
        /\ res' = r
        /\ UNCHANGED <<overflow_checks, pkt, lib_pkt, src, wire>>

SkipZeroBytes ==
    /\ hist = <<>>
    /\ \E b \in UnitBuffers, c \in UnitCursors, n \in SkipCounts :
       \E r \in {skip(n, c, b)} :
        /\ hist' = Append(hist, "skip")
        /\ bytes' = b
        /\ args' = [num_of_zero_bytes |-> n, cursor |-> c]
        /\ res' = r
        /\ UNCHANGED <<overflow_checks, pkt, lib_pkt, src, wire>>

IdentifierParse ==
    /\ hist = <<>>
    /\ \E b \in UnitBuffers, c \in UnitCursors :
       \E r \in {Identifier_parse(c, b)} :
        /\ hist' = Append(hist, "Identifier_parse")
        /\ bytes' = b
        /\ args' = [cursor |-> c]
        /\ res' = r
        /\ UNCHANGED <<overflow_checks, pkt, lib_pkt, src, wire>>

KindParse ==
    /\ hist = <<>>
    /\ \E b \in KindBuffers : \E c \in {Len(b) - 1, Len(b)} :
       \E r \in {Kind_parse(c, b)} :
        /\ hist' = Append(hist, "Kind_parse")
        /\ bytes' = b
        /\ args' = [cursor |-> c]
        /\ res' = r
        /\ UNCHANGED <<overflow_checks, pkt, lib_pkt, src, wire>>

KindToBytes ==
    /\ hist = <<>>
    /\ \E k \in AllKinds : \E r \in {Kind_to_bytes(k)} :
        /\ hist' = Append(hist, "Kind_to_bytes")
        /\ args' = [self |-> k]
        /\ res' = r
        /\ UNCHANGED <<overflow_checks, bytes, pkt, lib_pkt, src, wire>>

VersionToBytes ==
    /\ hist = <<>>
    /\ \E v \in AllVersions : \E r \in {Version_to_bytes(v)} :
        /\ hist' = Append(hist, "Version_to_bytes")
        /\ args' = [self |-> v]
        /\ res' = r
        /\ UNCHANGED <<overflow_checks, bytes, pkt, lib_pkt, src, wire>>

IdentifierToBytes ==
    /\ hist = <<>>
    /\ \E id \in AllIdentifiers : \E r \in {Identifier_to_bytes(id)} :
        /\ hist' = Append(hist, "Identifier_to_bytes")
        /\ args' = [self |-> id]
        /\ res' = r
        /\ UNCHANGED <<overflow_checks, bytes, pkt, lib_pkt, src, wire>>

HeaderToBytes ==
    /\ hist = <<>>
    /\ \E k \in AllKinds, v \in AllVersions :
       \E r \in {Header_to_bytes(Header_new(k, v))} :
        /\ hist' = Append(hist, "Header_to_bytes")
        /\ args' = [self |-> Header_new(k, v)]
        /\ res' = r
        /\ UNCHANGED <<overflow_checks, bytes, pkt, lib_pkt, src, wire>>

HeaderParse ==
    /\ hist = <<>>
    /\ \E b \in HeaderBuffers : \E r \in {header_parse(0, b)} :
        /\ hist' = Append(hist, "header_parse")
        /\ bytes' = b
        /\ args' = [cursor |-> 0]
        /\ res' = r
        /\ UNCHANGED <<overflow_checks, pkt, lib_pkt, src, wire>>

V1ParseEntry ==
    /\ hist = <<>>
    /\ \E b \in EntryBuffers, c \in EntryCursors : \E r \in {v1_parse_entry(c, b)} :
        /\ hist' = Append(hist, "v1_parse_entry")
        /\ bytes' = b
        /\ args' = [cursor |-> c]
        /\ res' = r
        /\ UNCHANGED <<overflow_checks, pkt, lib_pkt, src, wire>>

V2ParseEntry ==
    /\ hist = <<>>
    /\ \E b \in EntryBuffers, c \in EntryCursors : \E r \in {v2_parse_entry(c, b)} :
        /\ hist' = Append(hist, "v2_parse_entry")
        /\ bytes' = b
        /\ args' = [cursor |-> c]
        /\ res' = r
        /\ UNCHANGED <<overflow_checks, pkt, lib_pkt, src, wire>>

\* a field decoder is given any buffer at the start, or at the cursor 0 the
\* bytes that the encoder named by op has just returned
FieldInputs(buffers, cursors, op) ==
    IF hist = <<>> THEN buffers \X cursors
    ELSE IF Last(hist) = op /\ wire.ok /\ Len(hist) < MaxSteps
         THEN {<<wire.val, 0>>}
         ELSE {}

MetricToBytes ==
    /\ hist = <<>>
    /\ \E v \in MetricValues : \E r \in {metric_to_bytes(v)} :
        /\ hist' = Append(hist, "metric_to_bytes")
        /\ args' = [value |-> v]
        /\ res' = r
        /\ wire' = r
        /\ src' = OkV(v)
        /\ UNCHANGED <<overflow_checks, bytes, pkt, lib_pkt>>

MetricParse ==
    \E in \in FieldInputs(MetricBuffers, {0, 1}, "metric_to_bytes") :
    \E r \in {metric_parse(in[2], in[1])} :
        /\ hist' = Append(hist, "metric_parse")
        /\ bytes' = in[1]
        /\ args' = [cursor |-> in[2]]
        /\ res' = r
        /\ UNCHANGED <<overflow_checks, pkt, lib_pkt, src, wire>>

RouteTagToBytes ==
    /\ hist = <<>>
    /\ \E v \in RouteTagValues : \E r \in {route_tag_to_bytes(v)} :
        /\ hist' = Append(hist, "route_tag_to_bytes")
        /\ args' = [value |-> v]
        /\ res' = r
        /\ wire' = r
        /\ src' = OkV(v)
        /\ UNCHANGED <<overflow_checks, bytes, pkt, lib_pkt>>

RouteTagParse ==
    \E in \in FieldInputs(RouteTagBuffers, {0, 1}, "route_tag_to_bytes") :
    \E r \in {route_tag_parse(in[2], in[1])} :
        /\ hist' = Append(hist, "route_tag_parse")
        /\ bytes' = in[1]
        /\ args' = [cursor |-> in[2]]
        /\ res' = r
        /\ UNCHANGED <<overflow_checks, pkt, lib_pkt, src, wire>>

\* the parse of lib.rs, on the buffers given to parser::parse
LibParse ==
    /\ hist = <<>>
    /\ \E b \in Buffers : \E r \in {lib_parse(b)} :
        /\ hist' = Append(hist, "lib_parse")
        /\ bytes' = b
        /\ res' = r
        /\ lib_pkt' = IF r.ok THEN OkV(r.val.packet) ELSE None
        /\ UNCHANGED <<overflow_checks, args, pkt, src, wire>>

Next ==
    \/ Parse
    \/ ParseV1
    \/ ParseV2
    \/ MakeV1Packet
    \/ MakeV2Packet
    \/ LibPacketNew
    \/ SerializeV1Packet
    \/ SerializeV2Packet
    \/ ReadByte
    \/ SkipZeroBytes
    \/ IdentifierParse
    \/ KindParse
    \/ KindToBytes
    \/ VersionToBytes
    \/ IdentifierToBytes
    \/ HeaderToBytes
    \/ HeaderParse
    \/ V1ParseEntry
    \/ V2ParseEntry
    \/ MetricToBytes
    \/ MetricParse
    \/ RouteTagToBytes
    \/ RouteTagParse
    \/ LibParse

Spec == Init /\ [][Next]_vars

\* ------------------------------------------------------------------ helpers

\* the Result r is the error e (the variant's name is compared first)
IsErr(r, e) == ~r.ok /\ r.err[1] = e[1] /\ r.err = e

\* the last call, and whether it is the only one so far
LastIs(ops) == hist # <<>> /\ Last(hist) \in ops

OnlyCall(ops) == Len(hist) = 1 /\ hist[1] \in ops

\* the calls so far are a constructor, a serializer and parser::parse
RoundTripDone ==
    /\ Len(hist) = 3
    /\ hist[1] \in MakeOps /\ hist[2] \in SerializeOps /\ hist[3] = "parse"

Envelope(packet) ==
    [tag |-> IF packet.etype = "v1" THEN "V1" ELSE "V2", packet |-> packet]

Encodable(packet) ==
    /\ packet.header.command # "Unknown"
    /\ \A i \in 1..Len(packet.entries) :
          packet.entries[i].address_family_identifier # "Unknown"

VersionOf(etype) == IF etype = "v1" THEN "Version1" ELSE "Version2"

\* bytes starts with a header of a known command, the version byte v and two
\* zero reserved bytes
HeaderIs(b, v) ==
    /\ Len(b) >= 4
    /\ b[1] <= 11
    /\ b[2] = v
    /\ b[3] = 0 /\ b[4] = 0

\* ------------------------------------------------------------------- claims

\* C1 (as stated): every packet p that make_v1_packet / make_v2_packet returns
\* serializes, and parser::parse of the bytes returns the envelope holding p.
C1_RoundTripAnyPacket ==
    /\ (Len(hist) = 2 /\ hist[1] \in MakeOps /\ hist[2] \in SerializeOps)
          => wire.ok
    /\ RoundTripDone => (res.ok /\ res.val = Envelope(src.val))

\* C1 (amended): a packet p that make_v1_packet / make_v2_packet returns, with
\* at least one entry, a header command other than Unknown and no entry of
\* address family Unknown, serializes, and parser::parse of the bytes returns
\* the envelope of p's version holding a packet equal to p.
C1_RoundTripEncodableNonEmpty ==
    /\ (/\ Len(hist) = 2 /\ hist[1] \in MakeOps /\ hist[2] \in SerializeOps
        /\ Encodable(src.val))
          => wire.ok
    /\ (RoundTripDone /\ Len(src.val.entries) >= 1)
          => /\ Encodable(src.val)
             /\ res.ok
             /\ res.val.tag = (IF hist[1] = "make_v1_packet" THEN "V1" ELSE "V2")
             /\ res.val.packet = src.val

C1_Witness ==
    /\ RoundTripDone
    /\ hist[1] = "make_v2_packet"
    /\ Len(src.val.entries) = 25
    /\ res.ok /\ res.val.packet = src.val

\* C2: every Packet a public constructor or a parse entry point produces has at
\* most 25 entries and a header version equal to its entry type's version.
C2_PacketInvariant ==
    /\ pkt.ok =>
          /\ Len(pkt.val.entries) <= 25
          /\ pkt.val.header.version = VersionOf(pkt.val.etype)
    /\ lib_pkt.ok =>
          /\ Len(lib_pkt.val.entries) <= 25
          /\ lib_pkt.val.header.version = VersionOf(lib_pkt.val.etype)

\* C3: with a header of the matching version, make_v1_packet / make_v2_packet
\* fails with MaxRIPEntriesNumberExceeded for 26 entries or more and succeeds,
\* keeping the header and the entries, for 25 or fewer.
C3_EntryCapAtConstruction ==
    \A e \in {"v1", "v2"} :
        (/\ OnlyCall({IF e = "v1" THEN "make_v1_packet" ELSE "make_v2_packet"})
         /\ args.header.version = VersionOf(e))
        => /\ Len(args.entries) >= 26
                => IsErr(res, <<"MaxRIPEntriesNumberExceeded">>)
           /\ Len(args.entries) <= 25
                => /\ res.ok
                   /\ res.val.header = args.header
                   /\ res.val.entries = args.entries

C3_Witness ==
    /\ OnlyCall({"make_v1_packet"})
    /\ args.header.version = "Version1"
    /\ Len(args.entries) = 26
    /\ IsErr(res, <<"MaxRIPEntriesNumberExceeded">>)

\* C4: make_v1_packet fails with VersionInHeaderConflicted for every header
\* whose version is not Version1, and make_v2_packet for every header whose
\* version is not Version2, whatever the number of entries (more than 25 too).
C4_VersionCheckedBeforeCount ==
    \A e \in {"v1", "v2"} :
        (/\ OnlyCall({IF e = "v1" THEN "make_v1_packet" ELSE "make_v2_packet"})
         /\ args.header.version # VersionOf(e))
        => IsErr(res, <<"VersionInHeaderConflicted">>)

C4_Witness ==
    /\ OnlyCall({"make_v1_packet"})
    /\ args.header.version = "Version2"
    /\ Len(args.entries) = 26
    /\ IsErr(res, <<"VersionInHeaderConflicted">>)

\* the fields of the k-th entry as the v1 and the v2 wire layouts place them
\* in the buffer b (entry k starts at offset 4 + 20 * (k - 1))
LaidOutAsV1(entry, b, k) ==
    LET o == 4 + 20 * (k - 1) IN
    /\ DOMAIN entry = {"address_family_identifier", "ip_address", "metric"}
    /\ entry.ip_address = SubSeq(b, o + 5, o + 8)
    /\ entry.metric = [hi |-> b[o + 17] * 256 + b[o + 18],
                       lo |-> b[o + 19] * 256 + b[o + 20]]

LaidOutAsV2(entry, b, k) ==
    LET o == 4 + 20 * (k - 1) IN
    /\ DOMAIN entry = {"address_family_identifier", "route_tag", "ip_address",
                       "subnet_mask", "next_hop", "metric"}
    /\ entry.route_tag = b[o + 3] * 256 + b[o + 4]
    /\ entry.ip_address = SubSeq(b, o + 5, o + 8)
    /\ entry.subnet_mask = SubSeq(b, o + 9, o + 12)
    /\ entry.next_hop = SubSeq(b, o + 13, o + 16)
    /\ entry.metric = [hi |-> b[o + 17] * 256 + b[o + 18],
                       lo |-> b[o + 19] * 256 + b[o + 20]]

\* C5: when parser::parse succeeds, the version byte is 1 or 2; for 1 the
\* envelope is V1, the header version Version1 and every entry laid out as v1;
\* for 2 the envelope is V2, the header version Version2 and every entry laid
\* out as v2.
C5_DispatchOnVersionByte ==
    (LastIs({"parse"}) /\ res.ok) =>
        /\ bytes[2] \in {1, 2}
        /\ bytes[2] = 1 =>
              /\ res.val.tag = "V1"
              /\ res.val.packet.etype = "v1"
              /\ res.val.packet.header.version = "Version1"
              /\ \A k \in 1..Len(res.val.packet.entries) :
                    LaidOutAsV1(res.val.packet.entries[k], bytes, k)
        /\ bytes[2] = 2 =>
              /\ res.val.tag = "V2"
              /\ res.val.packet.etype = "v2"
              /\ res.val.packet.header.version = "Version2"
              /\ \A k \in 1..Len(res.val.packet.entries) :
                    LaidOutAsV2(res.val.packet.entries[k], bytes, k)

C5_Witness ==
    /\ OnlyCall({"parse"})
    /\ res.ok
    /\ bytes[2] = 2
    /\ res.val.tag = "V2"
    /\ Len(res.val.packet.entries) >= 3
    /\ res.val.packet.entries[3].route_tag = 258

\* C6: a buffer with a known command byte, version byte 0 and two zero
\* reserved bytes makes parser::parse fail with MustBeDiscardedVersion(2),
\* whatever follows the header.
C6_MustBeDiscardedVersion ==
    (LastIs({"parse"}) /\ HeaderIs(bytes, 0))
        => IsErr(res, <<"MustBeDiscardedVersion", 2>>)

C6_Witness ==
    /\ LastIs({"parse"})
    /\ HeaderIs(bytes, 0)
    /\ Len(bytes) = 24
    /\ IsErr(res, <<"MustBeDiscardedVersion", 2>>)

\* C7: a buffer with a known command byte, a version byte in 3..255 and two
\* zero reserved bytes makes parser::parse fail with UnknownVersion(2),
\* whatever follows the header.
C7_UnknownVersion ==
    \A v \in 3..255 :
        (LastIs({"parse"}) /\ HeaderIs(bytes, v))
            => IsErr(res, <<"UnknownVersion", 2>>)

C7_Witness ==
    /\ LastIs({"parse"})
    /\ HeaderIs(bytes, 255)
    /\ Len(bytes) > 4
    /\ IsErr(res, <<"UnknownVersion", 2>>)

\* C8: on a 4-byte buffer with a known command byte, version byte 1 or 2 and
\* zero reserved bytes, parser::parse fails with EmptyRIPEntry(4), and none of
\* parse, parse_v1, parse_v2 returns a packet (with zero entries or otherwise).
C8_HeaderOnlyPacket ==
    \A v \in {1, 2} :
        (Len(bytes) = 4 /\ HeaderIs(bytes, v)) =>
            /\ LastIs({"parse"}) => IsErr(res, <<"EmptyRIPEntry", 4>>)
            /\ LastIs(ParseOps) => ~res.ok

C8_Witness ==
    /\ LastIs({"parse"})
    /\ bytes = <<2, 2, 0, 0>>
    /\ IsErr(res, <<"EmptyRIPEntry", 4>>)

\* C9: with a valid v1 / v2 header, a parse entry point fails with
\* EmptyRIPEntry(4) if and only if no byte follows the header.
C9_EmptyIffNothingFollows ==
    \A v \in {1, 2} :
        (LastIs(ParseOps) /\ HeaderIs(bytes, v)) =>
            (IsErr(res, <<"EmptyRIPEntry", 4>>) <=> Len(bytes) = 4)

\* the buffer b starts with a v1 / v2 header and 25 entries valid for it
Has25ValidEntries(b) ==
    /\ Len(b) >= 504
    /\ \/ SubSeq(b, 1, 504) = HeaderWire(2, 1, <<0, 0>>) \o WireEntries("v1", 25)
       \/ SubSeq(b, 1, 504) = HeaderWire(2, 2, <<0, 0>>) \o WireEntries("v1", 25)
       \/ SubSeq(b, 1, 504) = HeaderWire(2, 2, <<0, 0>>) \o WireEntries("v2", 25)

\* C10: a buffer of a valid header, 25 valid entries and at least one more
\* byte makes parser::parse fail with MaxRIPEntriesNumberExceeded(504),
\* whatever the further bytes are; with nothing after the 25 entries the parse
\* succeeds with 25 entries.
C10_EntryCapAtParse ==
    (LastIs({"parse"}) /\ Has25ValidEntries(bytes)) =>
        /\ Len(bytes) > 504
              => IsErr(res, <<"MaxRIPEntriesNumberExceeded", 504>>)
        /\ Len(bytes) = 504
              => (res.ok /\ Len(res.val.packet.entries) = 25)

C10_Witness ==
    /\ OnlyCall({"parse"})
    /\ Has25ValidEntries(bytes)
    /\ Len(bytes) = 523
    /\ IsErr(res, <<"MaxRIPEntriesNumberExceeded", 504>>)

\* the index (0-based) of the first non-zero byte among the n bytes of b from
\* the cursor c on, as far as b reaches; -1 if there is none
FirstNonZero(b, c, n) ==
    LET S == { i \in c..(c + n - 1) : i < Len(b) /\ b[i + 1] # 0 } IN
    IF S = {} THEN -1 ELSE CHOOSE i \in S : \A j \in S : i <= j

\* C11: zero_bytes::skip(count, cursor, bytes) fails on the first non-zero
\* byte among the count bytes from cursor on with NotZeroByte(b, i + 1), b the
\* byte and i its index; it returns cursor + count when all count bytes are
\* zero; when the buffer ends first it fails with the reader's
\* InsufficientInputBytesLength.  A non-zero header byte at index 2 is
\* reported with offset 3, one at index 3 with offset 4.
C11_SkipReportsOnePast ==
    /\ OnlyCall({"skip"}) =>
          LET n == args.num_of_zero_bytes
              c == args.cursor
              i == FirstNonZero(bytes, c, n)
          IN  IF i # -1 THEN IsErr(res, <<"NotZeroByte", bytes[i + 1], i + 1>>)
              ELSE IF n = 0 \/ c + n <= Len(bytes)
                   THEN res.ok /\ res.cursor = c + n
                   ELSE IsErr(res, <<"InsufficientInputBytesLength",
                                     IF c > Len(bytes) THEN c ELSE Len(bytes)>>)
    /\ (LastIs(ParseOps) /\ Len(bytes) >= 4 /\ bytes[1] <= 11) =>
          /\ bytes[3] # 0 => IsErr(res, <<"NotZeroByte", bytes[3], 3>>)
          /\ (bytes[3] = 0 /\ bytes[4] # 0)
                => IsErr(res, <<"NotZeroByte", bytes[4], 4>>)

C11_Witness ==
    /\ OnlyCall({"skip"})
    /\ args.num_of_zero_bytes = 3
    /\ args.cursor = 1
    /\ bytes = <<2, 0, 255, 2>>
    /\ IsErr(res, <<"NotZeroByte", 255, 3>>)

\* the index (0-based) of the reserved byte that is set in a buffer of
\* ReservedSetBuffers
V1ReservedFault(b) ==
    CHOOSE i \in 4..(Len(b) - 1) :
        ((i - 4) % 20) \in V1ReservedPositions /\ b[i + 1] # 0

\* C12 (as stated): decoding a v1 entry one of whose 10 reserved bytes is
\* non-zero, everything before it being valid, fails with NotZeroByte whose
\* offset is the index of that byte.
C12_ReservedByteExactOffset ==
    (LastIs({"parse", "parse_v1"}) /\ bytes \in ReservedSetBuffers) =>
        IsErr(res, <<"NotZeroByte", bytes[V1ReservedFault(bytes) + 1],
                     V1ReservedFault(bytes)>>)

\* C12 (amended): decoding a v1 entry one of whose 10 reserved bytes is
\* non-zero, everything before it being valid, fails with NotZeroByte whose
\* offset is the index of that byte plus one.
C12_ReservedByteOnePast ==
    (LastIs({"parse", "parse_v1"}) /\ bytes \in ReservedSetBuffers) =>
        IsErr(res, <<"NotZeroByte", bytes[V1ReservedFault(bytes) + 1],
                     V1ReservedFault(bytes) + 1>>)

C12_Witness ==
    /\ OnlyCall({"parse_v1"})
    /\ bytes \in ReservedSetBuffers
    /\ Len(bytes) = 64
    /\ V1ReservedFault(bytes) = 59
    /\ IsErr(res, <<"NotZeroByte", 255, 60>>)

\* C13: Identifier::parse at the cursor c, two bytes being there, reads
\* v = bytes[c] * 256 + bytes[c + 1]; for v = 0, 2, 65535 it returns
\* Unspecified, IP, AuthenticationPresent with the cursor c + 2, for every
\* other v it fails with UnknownAddressFamilyIdentifier(v, c + 1); no
\* successful decode returns Unknown.
C13_IdentifierParse ==
    OnlyCall({"Identifier_parse"}) =>
        /\ res.ok => res.val # "Unknown"
        /\ args.cursor + 2 <= Len(bytes) =>
              LET c == args.cursor
                  v == bytes[c + 1] * 256 + bytes[c + 2]
              IN  CASE v = 0 -> res = Ok("Unspecified", c + 2)
                    [] v = 2 -> res = Ok("IP", c + 2)
                    [] v = 65535 -> res = Ok("AuthenticationPresent", c + 2)
                    [] OTHER ->
                        IsErr(res, <<"UnknownAddressFamilyIdentifier", v, c + 1>>)

C13_Witness ==
    /\ OnlyCall({"Identifier_parse"})
    /\ args.cursor = 1
    /\ bytes = <<0, 2, 255>>
    /\ IsErr(res, <<"UnknownAddressFamilyIdentifier", 767, 2>>)

\* C14: a buffer whose first byte b is in 12..255 makes parse, parse_v1 and
\* parse_v2 fail with UnknownCommandKind(b, 1), whatever the later bytes are;
\* a byte b in 0..11 decodes to the b-th variant of Kind (0 to Invalid) with
\* the cursor moved by one, and a packet parsed from a buffer starting with
\* it has that command.
C14_CommandDecode ==
    /\ (LastIs(ParseOps) /\ Len(bytes) >= 1 /\ bytes[1] >= 12)
          => IsErr(res, <<"UnknownCommandKind", bytes[1], 1>>)
    /\ (LastIs(ParseOps) /\ res.ok)
          => /\ bytes[1] <= 11
             /\ pkt.val.header.command = KindNames[bytes[1] + 1]
             /\ bytes[1] = 0 => pkt.val.header.command = "Invalid"
    /\ (OnlyCall({"Kind_parse"}) /\ args.cursor < Len(bytes)) =>
          LET c == args.cursor
              b == bytes[c + 1]
          IN  /\ b >= 12 => IsErr(res, <<"UnknownCommandKind", b, c + 1>>)
              /\ b <= 11 => res = Ok(KindNames[b + 1], c + 1)
              /\ b = 0 => res = Ok("Invalid", c + 1)

C14_Witness ==
    /\ OnlyCall({"parse_v2"})
    /\ Len(bytes) = 24
    /\ bytes[1] = 255 /\ bytes[2] = 3 /\ bytes[3] = 1
    /\ IsErr(res, <<"UnknownCommandKind", 255, 1>>)

\* C15: byte_reader::read(cursor, bytes) fails with
\* InsufficientInputBytesLength(cursor) if and only if cursor >= len(bytes),
\* and returns (bytes[cursor], cursor + 1) otherwise; whenever parse, parse_v1
\* or parse_v2 fails with InsufficientInputBytesLength(n), n is the length of
\* the buffer.
C15_TruncationOffset ==
    /\ OnlyCall({"read"}) =>
          IF args.cursor >= Len(bytes)
          THEN IsErr(res, <<"InsufficientInputBytesLength", args.cursor>>)
          ELSE res = Ok(bytes[args.cursor + 1], args.cursor + 1)
    /\ (LastIs(ParseOps) /\ ~res.ok
           /\ res.err[1] = "InsufficientInputBytesLength")
          => res.err[2] = Len(bytes)

C15_Witness ==
    /\ OnlyCall(ParseOps)
    /\ HeaderIs(bytes, 1)
    /\ Len(bytes) = 23
    /\ IsErr(res, <<"InsufficientInputBytesLength", 23>>)

\* C16: parse_v1 on a buffer whose header decodes with a version other than
\* Version1, and parse_v2 on one whose header decodes with a version other
\* than Version2, fails with InvalidPacket(VersionInHeaderConflicted),
\* whatever follows the header.
C16_VersionBeforeEntries ==
    \A v \in 0..255 :
        /\ (LastIs({"parse_v1"}) /\ HeaderIs(bytes, v) /\ v # 1)
              => IsErr(res, <<"InvalidPacket", "VersionInHeaderConflicted">>)
        /\ (LastIs({"parse_v2"}) /\ HeaderIs(bytes, v) /\ v # 2)
              => IsErr(res, <<"InvalidPacket", "VersionInHeaderConflicted">>)

\* the 20 bytes of the wire layouts, written from the fields of an entry
V1Layout(entry) ==
    << Identifier_to_u16(entry.address_family_identifier) \div 256,
       Identifier_to_u16(entry.address_family_identifier) % 256, 0, 0 >>
    \o entry.ip_address \o <<0, 0, 0, 0, 0, 0, 0, 0>>
    \o << entry.metric.hi \div 256, entry.metric.hi % 256,
          entry.metric.lo \div 256, entry.metric.lo % 256 >>

V2Layout(entry) ==
    << Identifier_to_u16(entry.address_family_identifier) \div 256,
       Identifier_to_u16(entry.address_family_identifier) % 256,
       entry.route_tag \div 256, entry.route_tag % 256 >>
    \o entry.ip_address \o entry.subnet_mask \o entry.next_hop
    \o << entry.metric.hi \div 256, entry.metric.hi % 256,
          entry.metric.lo \div 256, entry.metric.lo % 256 >>

\* C17: a packet of n entries, none of its fields Unknown, serializes to
\* exactly 4 + 20 * n bytes: the command and version numbers and two zero
\* bytes, then the entries in their order, each in the 20-byte layout of its
\* version.
C17_SerializationLayout ==
    (LastIs(SerializeOps) /\ Encodable(src.val)) =>
        /\ wire.ok
        /\ Len(wire.val) = 4 + 20 * Len(src.val.entries)
        /\ SubSeq(wire.val, 1, 4) =
              << Kind_to_u8(src.val.header.command),
                 IF Last(hist) = "serialize_v1_packet" THEN 1 ELSE 2, 0, 0 >>
        /\ \A k \in 1..Len(src.val.entries) :
              SubSeq(wire.val, 20 * k - 15, 20 * k + 4) =
                 IF Last(hist) = "serialize_v1_packet"
                 THEN V1Layout(src.val.entries[k])
                 ELSE V2Layout(src.val.entries[k])

C17_Witness ==
    /\ LastIs({"serialize_v2_packet"})
    /\ hist[1] = "make_v2_packet"
    /\ Len(src.val.entries) = 3
    /\ wire.ok
    /\ SubSeq(wire.val, 1, 8) = <<2, 2, 0, 0, 0, 0, 0, 0>>
    /\ SubSeq(wire.val, 45, 48) = <<0, 2, 1, 2>>
    /\ SubSeq(wire.val, 61, 64) = <<0, 0, 0, 16>>

\* C18: Identifier::Unknown, Kind::Unknown and Version::Unknown do not encode
\* (UnknownAddressFamilyIdentifier, UnknownCommandKind, UnknownVersion); a
\* Header encodes unless its command or its version is Unknown, with
\* UnknownCommandKind when the command is; a packet serializes if and only if
\* its header command is not Unknown and no entry has the address family
\* Unknown, and a failed serialization returns an error and no bytes.
C18_UnknownNotEncodable ==
    /\ (OnlyCall({"Identifier_to_bytes"}) /\ args.self = "Unknown")
          => IsErr(res, <<"UnknownAddressFamilyIdentifier">>)
    /\ (OnlyCall({"Kind_to_bytes"}) /\ args.self = "Unknown")
          => IsErr(res, <<"UnknownCommandKind">>)
    /\ (OnlyCall({"Version_to_bytes"}) /\ args.self = "Unknown")
          => IsErr(res, <<"UnknownVersion">>)
    /\ OnlyCall({"Header_to_bytes"}) =>
          /\ args.self.command = "Unknown"
                => IsErr(res, <<"UnknownCommandKind">>)
          /\ (args.self.command # "Unknown" /\ args.self.version = "Unknown")
                => IsErr(res, <<"UnknownVersion">>)
          /\ (args.self.command # "Unknown" /\ args.self.version # "Unknown")
                => res.ok
    /\ LastIs(SerializeOps) =>
          /\ wire.ok <=> Encodable(src.val)
          /\ ~wire.ok => DOMAIN wire = {"ok", "err"}

C18_Witness ==
    /\ OnlyCall({"Header_to_bytes"})
    /\ args.self.command = "Unknown"
    /\ args.self.version = "Unknown"
    /\ IsErr(res, <<"UnknownCommandKind">>)

\* C19: parse, parse_v1 and parse_v2 return a packet or a ParseError for
\* every buffer, the empty one and those of 1..3 bytes included: no call
\* panics, neither in the unwrap of make_v1_packet / make_v2_packet nor in
\* bytes.len() - 1, parse_entries being reached with 4 bytes or more only.
C19_NoPanic ==
    LastIs(ParseOps) =>
        /\ ~res.ok => res.err[1] # "panic"
        /\ (~res.ok /\ Len(bytes) < 4) =>
              res.err[1] \in {"InsufficientInputBytesLength",
                              "UnknownCommandKind", "NotZeroByte"}

C19_Witness ==
    /\ OnlyCall({"parse"})
    /\ bytes = <<>>
    /\ overflow_checks
    /\ IsErr(res, <<"InsufficientInputBytesLength", 0>>)

\* C20: a packet with more than one field that does not encode fails to
\* serialize with the error of the first of them in wire order (header
\* command, header version, entries in sequence): with the header command
\* Unknown the error is UnknownCommandKind.
C20_ErrorInWireOrder ==
    (LastIs(SerializeOps) /\ src.val.header.command = "Unknown")
        => IsErr(wire, <<"UnknownCommandKind">>)

\* C21: on a buffer with a known command byte and a version byte of 0 or
\* 3..255, parser::parse fails with NotZeroByte (offset 3 or 4) when a reserved
\* byte is not zero and with InsufficientInputBytesLength(len) when the buffer
\* has fewer than 4 bytes; MustBeDiscardedVersion / UnknownVersion is returned
\* only for a whole header with zero reserved bytes.
C21_HeaderBeforeVersion ==
    (/\ LastIs({"parse"})
     /\ Len(bytes) >= 2 /\ bytes[1] <= 11 /\ bytes[2] \notin {1, 2}) =>
        IF Len(bytes) >= 3 /\ bytes[3] # 0
        THEN IsErr(res, <<"NotZeroByte", bytes[3], 3>>)
        ELSE IF Len(bytes) >= 4 /\ bytes[4] # 0
        THEN IsErr(res, <<"NotZeroByte", bytes[4], 4>>)
        ELSE IF Len(bytes) < 4
        THEN IsErr(res, <<"InsufficientInputBytesLength", Len(bytes)>>)
        ELSE /\ ~res.ok
             /\ res.err[1] = (IF bytes[2] = 0 THEN "MustBeDiscardedVersion"
                                              ELSE "UnknownVersion")

C21_Witness ==
    /\ OnlyCall({"parse"})
    /\ Len(bytes) = 24
    /\ bytes[1] = 11 /\ bytes[2] = 255 /\ bytes[3] = 0 /\ bytes[4] = 9
    /\ IsErr(res, <<"NotZeroByte", 9, 4>>)

\* C22: header::parse(0, bytes) succeeds with the cursor 4 on every buffer of
\* 4 bytes or more whose command byte is in 0..11 and whose bytes 2 and 3 are
\* zero, for each of the 256 version bytes; the version returned is
\* MustBeDiscarded for 0, Version1 for 1, Version2 for 2, Unknown otherwise.
C22_PermissiveHeaderDecode ==
    \A v \in 0..255 :
        (OnlyCall({"header_parse"}) /\ HeaderIs(bytes, v)) =>
            /\ res.ok
            /\ res.cursor = 4
            /\ res.val.command = KindNames[bytes[1] + 1]
            /\ res.val.version =
                  (CASE v = 0 -> "MustBeDiscarded"
                     [] v = 1 -> "Version1"
                     [] v = 2 -> "Version2"
                     [] OTHER -> "Unknown")

C22_Witness ==
    /\ OnlyCall({"header_parse"})
    /\ bytes = <<11, 200, 0, 0, 7>>
    /\ res = Ok(Header_new("UpdateAcknowledge", "Unknown"), 4)

\* C23: a successful decode never returns a cursor below the one it was
\* given; a successful v1 or v2 entry decode from the cursor c returns c + 20
\* and a successful header decode returns 4, so that a parse which decoded k
\* entries ended at the cursor 4 + 20 * k, the length of the buffer; a failed
\* decode returns an error and neither a cursor nor a value.
C23_CursorDiscipline ==
    /\ OnlyCall({"v1_parse_entry", "v2_parse_entry"}) =>
          /\ res.ok => res.cursor = args.cursor + 20
          /\ ~res.ok => DOMAIN res = {"ok", "err"}
    /\ OnlyCall({"header_parse"}) =>
          /\ res.ok => res.cursor = 4
          /\ ~res.ok => DOMAIN res = {"ok", "err"}
    /\ OnlyCall({"read", "skip", "Identifier_parse", "Kind_parse"}) =>
          /\ res.ok => res.cursor >= args.cursor
          /\ ~res.ok => DOMAIN res = {"ok", "err"}
    /\ LastIs({"metric_parse", "route_tag_parse"}) =>
          /\ res.ok => res.cursor >= args.cursor
          /\ ~res.ok => DOMAIN res = {"ok", "err"}
    /\ (LastIs(ParseOps) /\ res.ok) =>
          4 + 20 * Len(pkt.val.entries) = Len(bytes)
    /\ (LastIs(ParseOps) /\ ~res.ok) => DOMAIN res = {"ok", "err"}

C23_Witness ==
    /\ OnlyCall({"v2_parse_entry"})
    /\ args.cursor = 24
    /\ Len(bytes) = 44
    /\ res.ok /\ res.cursor = 44

\* C24: parse, parse_v1 and parse_v2 succeed only on a buffer of 4 + 20 * k
\* bytes with 1 <= k <= 25, and the packet returned then has k entries, the
\* i-th decoded from the i-th group of 20 bytes; on a buffer of any other
\* length they fail.
C24_AcceptedLengths ==
    LastIs(ParseOps) =>
        /\ res.ok =>
              \E k \in 1..25 :
                  /\ Len(bytes) = 4 + 20 * k
                  /\ Len(pkt.val.entries) = k
                  /\ \A i \in 1..k :
                        IF pkt.val.etype = "v1"
                        THEN LaidOutAsV1(pkt.val.entries[i], bytes, i)
                        ELSE LaidOutAsV2(pkt.val.entries[i], bytes, i)
        /\ (Len(bytes) < 24 \/ Len(bytes) > 504 \/ (Len(bytes) - 4) % 20 # 0)
              => ~res.ok

C24_Witness ==
    /\ OnlyCall({"parse_v1"})
    /\ HeaderIs(bytes, 1)
    /\ Len(bytes) = 45
    /\ SubSeq(bytes, 1, 44) = HeaderWire(2, 1, <<0, 0>>) \o WireEntries("v1", 2)
    /\ ~res.ok

\* C25: when parser::parse succeeds on a buffer b, the packet returned has no
\* Unknown command, version or address family, and serializing it (with the
\* serializer of its envelope) succeeds and returns exactly b.
C25_ByteRoundTrip ==
    /\ (LastIs({"parse"}) /\ res.ok) =>
          /\ res.val.packet.header.command # "Unknown"
          /\ res.val.packet.header.version \in {"Version1", "Version2"}
          /\ \A i \in 1..Len(res.val.packet.entries) :
                res.val.packet.entries[i].address_family_identifier # "Unknown"
    /\ (/\ Len(hist) >= 2
        /\ hist[Len(hist) - 1] = "parse"
        /\ Last(hist) \in SerializeOps) =>
          /\ wire.ok
          /\ wire.val = bytes

C25_Witness ==
    /\ hist = <<"parse", "serialize_v2_packet">>
    /\ Len(bytes) = 504
    /\ wire.ok /\ wire.val = bytes

\* C26: a packet p that make_v1_packet / make_v2_packet returns, with 1 to 25
\* entries, a header command other than Unknown and no entry of the address
\* family Unknown, serializes; parser::parse of the bytes returns the envelope
\* of p's version, with p's header and p's entries in their order, each field
\* (the 32-bit metric and the 16-bit route tag among them) as it was.
C26_RestrictedRoundTrip ==
    (/\ Len(hist) >= 2 /\ hist[1] \in MakeOps /\ hist[2] \in SerializeOps
     /\ Len(src.val.entries) \in 1..25
     /\ Encodable(src.val)) =>
        /\ wire.ok
        /\ (Len(hist) = 3 /\ hist[3] = "parse") =>
              /\ res.ok
              /\ res.val.tag = (IF src.val.etype = "v1" THEN "V1" ELSE "V2")
              /\ res.val.packet.header = args.header
              /\ Len(res.val.packet.entries) = Len(args.entries)
              /\ \A i \in 1..Len(args.entries) :
                    res.val.packet.entries[i] = args.entries[i]

C26_Witness ==
    /\ RoundTripDone
    /\ hist[1] = "make_v2_packet"
    /\ Len(args.entries) = 3
    /\ res.ok
    /\ res.val.packet.entries[2].metric = [hi |-> 65535, lo |-> 65535]
    /\ res.val.packet.entries[2].route_tag = 65535
    /\ res.val.packet.entries = args.entries

\* C27: on every buffer b, parser::parse returns V1(p) if and only if
\* parse_v1 returns Ok(p), and V2(p) if and only if parse_v2 returns Ok(p),
\* with the same p; parse_v1 and parse_v2 do not both accept b.
C27_EntryPointsAgree ==
    /\ LastIs({"parse"}) =>
          /\ (res.ok /\ res.val.tag = "V1")
                <=> parse_v1(bytes, overflow_checks).ok
          /\ (res.ok /\ res.val.tag = "V2")
                <=> parse_v2(bytes, overflow_checks).ok
          /\ (res.ok /\ res.val.tag = "V1")
                => parse_v1(bytes, overflow_checks).val = res.val.packet
          /\ (res.ok /\ res.val.tag = "V2")
                => parse_v2(bytes, overflow_checks).val = res.val.packet
    /\ (LastIs({"parse_v1"}) /\ res.ok)
          => /\ ~parse_v2(bytes, overflow_checks).ok
             /\ parse(bytes, overflow_checks) =
                   OkV([tag |-> "V1", packet |-> res.val])
    /\ (LastIs({"parse_v2"}) /\ res.ok)
          => /\ ~parse_v1(bytes, overflow_checks).ok
             /\ parse(bytes, overflow_checks) =
                   OkV([tag |-> "V2", packet |-> res.val])

C27_Witness ==
    /\ OnlyCall({"parse_v1"})
    /\ Len(bytes) = 24
    /\ bytes[2] = 1
    /\ res.ok
    /\ parse(bytes, overflow_checks) = OkV([tag |-> "V1", packet |-> res.val])
    /\ IsErr(parse_v2(bytes, overflow_checks),
             <<"InvalidPacket", "VersionInHeaderConflicted">>)

\* C28: metric::parse returns b0 * 2^24 + b1 * 2^16 + b2 * 2^8 + b3 (as the
\* halves b0 * 2^8 + b1 and b2 * 2^8 + b3, each within 16 bits: the sum does
\* not overflow) and route_tag::parse returns b0 * 2^8 + b1, within 16 bits,
\* as does the value Identifier::parse reports; metric::to_bytes and
\* route_tag::to_bytes write the most significant byte first; decoding the
\* bytes of an encoded metric or route tag returns it; every metric decodes,
\* above 16 too.
C28_FieldArithmetic ==
    /\ (LastIs({"metric_parse"}) /\ args.cursor + 4 <= Len(bytes)) =>
          LET c == args.cursor IN
          /\ res.ok
          /\ res.cursor = c + 4
          /\ res.val.hi = bytes[c + 1] * 256 + bytes[c + 2]
          /\ res.val.lo = bytes[c + 3] * 256 + bytes[c + 4]
          /\ res.val.hi \in 0..65535 /\ res.val.lo \in 0..65535
    /\ (LastIs({"route_tag_parse"}) /\ args.cursor + 2 <= Len(bytes)) =>
          LET c == args.cursor IN
          /\ res = Ok(bytes[c + 1] * 256 + bytes[c + 2], c + 2)
          /\ res.val \in 0..65535
    /\ (OnlyCall({"Identifier_parse"}) /\ ~res.ok
           /\ res.err[1] = "UnknownAddressFamilyIdentifier")
          => res.err[2] \in 0..65535
    /\ OnlyCall({"metric_to_bytes"}) =>
          res = OkV(<< args.value.hi \div 256, args.value.hi % 256,
                       args.value.lo \div 256, args.value.lo % 256 >>)
    /\ OnlyCall({"route_tag_to_bytes"}) =>
          res = OkV(<< args.value \div 256, args.value % 256 >>)
    /\ (hist = <<"metric_to_bytes", "metric_parse">>
           \/ hist = <<"route_tag_to_bytes", "route_tag_parse">>)
          => (res.ok /\ res.val = src.val)

C28_Witness ==
    /\ hist = <<"metric_to_bytes", "metric_parse">>
    /\ src.val = [hi |-> 65535, lo |-> 65535]
    /\ bytes = <<255, 255, 255, 255>>
    /\ res = Ok(src.val, 4)

\* C29: in parser::parse and in the parse of lib.rs, a buffer with a known
\* command byte, zero reserved bytes and a version byte in 3..255 fails with
\* UnknownVersion, never with UnknownCommandKind.
C29_NoOverloadedError ==
    \A v \in 3..255 :
        (LastIs({"parse", "lib_parse"}) /\ HeaderIs(bytes, v)) =>
            /\ ~res.ok
            /\ res.err[1] = "UnknownVersion"

=============================================================================
